---- MODULE Spec2Model ----
(***************************************************************************)
(* Model of src/src/06-objects-tasks.js: the CSSSelector builder behind    *)
(* cssSelectorBuilder, the Rectangle factory and getJSON / fromJSON.       *)
(*                                                                         *)
(* A string is a sequence of one-character strings.  A CSSSelector object  *)
(* lives in the object heap `selectors`; its `structure` field is a        *)
(* reference into the array heap `arrays`, as in JavaScript, where every   *)
(* constructor call evaluates `[]` to a new array.                         *)
(***************************************************************************)
EXTENDS Integers, Sequences, FiniteSets, TLC

VARIABLES selectors, arrays, hist, last, steps, rect, rlast,
          objects, protoArg, json, made

builderVars == <<selectors, arrays, hist, last, steps>>

rectVars == <<rect, rlast>>

jsonVars == <<objects, protoArg, json, made>>

vars ==
  <<selectors, arrays, hist, last, steps, rect, rlast,
    objects, protoArg, json, made>>

(***************************************************************************)
(* Bounds and input sets.                                                  *)
(***************************************************************************)
MaxSelectors == 3
MaxSteps == 3
MaxChain == 6
MaxDim == 2
MaxFields == 2

div == <<"d", "i", "v">>
main == <<"m", "a", "i", "n">>
Values == {div, main}
Combinators == {<<"+">>, <<" ">>}

(***************************************************************************)
(* CSSSelector: the constants every instance carries.                      *)
(***************************************************************************)
Kinds == {"element", "id", "class", "attr", "pseudoClass", "pseudoElement"}

order ==
  [element |-> 1, id |-> 2, class |-> 3, attr |-> 4, pseudoClass |-> 5,
   pseudoElement |-> 6]

uniqs == <<"element", "id", "pseudoElement">>

msgOrder == "Selector parts should be arranged in the following order: element, id, class, attribute, pseudo-class, pseudo-element"

msgUniqs == "Element, id and pseudo-element should not occur more then one time inside the selector"

NoError == "none"

\* Array.prototype.includes
includes(arr, x) == \E i \in 1..Len(arr) : arr[i] = x

\* A store is the pair of heaps; methods take a store and return a store.
Store(sel, arr) == [sel |-> sel, arr |-> arr]

\* this.structure of the object at reference `this`
structureOf(st, this) == st.arr[st.sel[this].structure]

\* Mutant: one selector object serves every construction.
ConstructReuse(st) ==
  IF st.sel = <<>>
    THEN [this |-> 1, st |-> Store(<<[css |-> <<>>, structure |-> 1]>>, <<<<>>>>)]
    ELSE [this |-> Len(st.sel), st |-> st]

\* Mutant: the structure array is shared by all instances.
ConstructSharedStructure(st) ==
  [this |-> Len(st.sel) + 1,
   st |-> Store(Append(st.sel, [css |-> <<>>, structure |-> 1]),
                IF st.arr = <<>> THEN <<<<>>>> ELSE st.arr)]

\* new CSSSelector(): a new object with css '' and a new, empty structure array
Construct(st) ==
  [this |-> Len(st.sel) + 1,
   st |-> Store(Append(st.sel, [css |-> <<>>, structure |-> Len(st.arr) + 1]),
                Append(st.arr, <<>>))]

Threw(msg, st) == [threw |-> msg, st |-> st]

Returned(st) == [threw |-> NoError, st |-> st]

\* this.structure.push(value)
push(st, this, value) ==
  Store(st.sel, [st.arr EXCEPT ![st.sel[this].structure] = Append(@, value)])

\* Mutant: the text is assigned, not appended.
appendCssAssign(st, this, text) ==
  Store([st.sel EXCEPT ![this].css = text], st.arr)

\* this.css += text
appendCss(st, this, text) ==
  Store([st.sel EXCEPT ![this].css = @ \o text], st.arr)

\* Mutant: the order test runs before the uniqueness test.
checkStructureOrderFirst(st, this, value) ==
  LET structure == structureOf(st, this) IN
  IF Len(structure) > 0 /\ order[value] < order[structure[Len(structure)]]
    THEN Threw(msgOrder, st)
  ELSE IF includes(uniqs, value) /\ includes(structure, value)
    THEN Threw(msgUniqs, st)
  ELSE Returned(push(st, this, value))

\* Mutant: <= in place of <, so a repeated kind is rejected.
checkStructureStrict(st, this, value) ==
  LET structure == structureOf(st, this) IN
  IF includes(uniqs, value) /\ includes(structure, value)
    THEN Threw(msgUniqs, st)
  ELSE IF Len(structure) > 0 /\ order[value] <= order[structure[Len(structure)]]
    THEN Threw(msgOrder, st)
  ELSE Returned(push(st, this, value))

\* Mutant: the kind is pushed before the order test.
checkStructurePushFirst(st, this, value) ==
  LET structure == structureOf(st, this) IN
  IF includes(uniqs, value) /\ includes(structure, value)
    THEN Threw(msgUniqs, st)
  ELSE IF Len(structure) > 0 /\ order[value] < order[structure[Len(structure)]]
    THEN Threw(msgOrder, push(st, this, value))
  ELSE Returned(push(st, this, value))

\* Mutant: no uniqueness test.
checkStructureNoUniqs(st, this, value) ==
  LET structure == structureOf(st, this) IN
  IF Len(structure) > 0 /\ order[value] < order[structure[Len(structure)]]
    THEN Threw(msgOrder, st)
  ELSE Returned(push(st, this, value))

\* Mutant: the order test looks at the first kind pushed, not the last.
checkStructureAgainstFirst(st, this, value) ==
  LET structure == structureOf(st, this) IN
  IF includes(uniqs, value) /\ includes(structure, value)
    THEN Threw(msgUniqs, st)
  ELSE IF Len(structure) > 0 /\ order[value] < order[structure[1]]
    THEN Threw(msgOrder, st)
  ELSE Returned(push(st, this, value))

checkStructure(st, this, value) ==
  LET structure == structureOf(st, this) IN
  IF includes(uniqs, value) /\ includes(structure, value)
    THEN Threw(msgUniqs, st)
  ELSE IF Len(structure) > 0 /\ order[value] < order[structure[Len(structure)]]
    THEN Threw(msgOrder, st)
  ELSE Returned(push(st, this, value))

\* Mutant: the text is appended before the structure is checked.
partMethodAppendFirst(st, this, kind, text) ==
  LET appended == appendCss(st, this, text)
      r == checkStructure(appended, this, kind) IN
  IF r.threw # NoError THEN Threw(r.threw, appended) ELSE r

\* A part method: checkStructure(kind), then this.css += rendered text.
partMethod(st, this, kind, text) ==
  LET r == checkStructure(st, this, kind) IN
  IF r.threw # NoError THEN r ELSE Returned(appendCss(r.st, this, text))

element(st, this, value) == partMethod(st, this, "element", value)

id(st, this, value) == partMethod(st, this, "id", <<"#">> \o value)

class(st, this, value) == partMethod(st, this, "class", <<".">> \o value)

\* Mutant: the closing bracket is missing.
attrUnclosed(st, this, value) ==
  partMethod(st, this, "attr", <<"[">> \o value)

attr(st, this, value) ==
  partMethod(st, this, "attr", <<"[">> \o value \o <<"]">>)

pseudoClass(st, this, value) ==
  partMethod(st, this, "pseudoClass", <<":">> \o value)

pseudoElement(st, this, value) ==
  partMethod(st, this, "pseudoElement", <<":", ":">> \o value)

stringify(st, this) == st.sel[this].css

\* Mutant: no spaces around the combinator.
combineTight(st, this, selector1, combinator, selector2) ==
  Returned(appendCss(st, this,
    stringify(st, selector1) \o combinator \o stringify(st, selector2)))

\* Mutant: combine starts the part sequence over.
combineResetting(st, this, selector1, combinator, selector2) ==
  LET appended == appendCss(st, this,
        stringify(st, selector1) \o <<" ">> \o combinator \o <<" ">>
          \o stringify(st, selector2)) IN
  Returned(Store(appended.sel,
                 [appended.arr EXCEPT ![appended.sel[this].structure] = <<>>]))

\* Mutant: the right operand is appended to the left operand, whose text
\* becomes the receiver's.
combineIntoLeft(st, this, selector1, combinator, selector2) ==
  LET joined == appendCss(st, selector1,
        <<" ">> \o combinator \o <<" ">> \o stringify(st, selector2)) IN
  Returned(appendCss(joined, this, stringify(joined, selector1)))

combine(st, this, selector1, combinator, selector2) ==
  Returned(appendCss(st, this,
    stringify(st, selector1) \o <<" ">> \o combinator \o <<" ">>
      \o stringify(st, selector2)))

\* Dispatch of selector[kind](value)
callPart(st, this, kind, value) ==
  CASE kind = "element" -> element(st, this, value)
    [] kind = "id" -> id(st, this, value)
    [] kind = "class" -> class(st, this, value)
    [] kind = "attr" -> attr(st, this, value)
    [] kind = "pseudoClass" -> pseudoClass(st, this, value)
    [] kind = "pseudoElement" -> pseudoElement(st, this, value)

(***************************************************************************)
(* State machine.  `hist` is a history variable: for each selector, the    *)
(* calls it accepted, in order.  `last` describes the call just made.      *)
(***************************************************************************)
Here == Store(selectors, arrays)

Refs == 1..Len(selectors)

NoCall ==
  [op |-> "none", facade |-> FALSE, this |-> 0, kind |-> "", value |-> <<>>,
   s1 |-> 0, comb |-> <<>>, s2 |-> 0, threw |-> NoError, ret |-> <<>>]

\* Commit the outcome r of a call on `this`, with hist extended to h.
Commit(r, h, call) ==
  /\ selectors' = r.st.sel
  /\ arrays' = r.st.arr
  /\ hist' = h
  /\ last' = [call EXCEPT !.threw = r.threw]

Accepted(h, this, r, entry) ==
  IF r.threw = NoError THEN [h EXCEPT ![this] = Append(@, entry)] ELSE h

\* selector.<kind>(value) on a selector built earlier
Part(this, kind, value) ==
  LET r == callPart(Here, this, kind, value) IN
  Commit(r, Accepted(hist, this, r, [kind |-> kind, value |-> value]),
         [NoCall EXCEPT !.op = "part", !.this = this, !.kind = kind,
                        !.value = value])

\* selector.combine(selector1, combinator, selector2)
Combine(this, selector1, combinator, selector2) ==
  LET r == combine(Here, this, selector1, combinator, selector2) IN
  Commit(r, Accepted(hist, this, r, [kind |-> "combine", value |-> combinator]),
         [NoCall EXCEPT !.op = "combine", !.this = this, !.s1 = selector1,
                        !.comb = combinator, !.s2 = selector2])

\* Mutant: stringify() hands the text out and clears it.
StringifyConsuming(this) ==
  /\ last' = [NoCall EXCEPT !.op = "stringify", !.this = this,
                            !.ret = stringify(Here, this)]
  /\ selectors' = [selectors EXCEPT ![this].css = <<>>]
  /\ UNCHANGED <<arrays, hist>>

\* selector.stringify()
Stringify(this) ==
  /\ last' = [NoCall EXCEPT !.op = "stringify", !.this = this,
                            !.ret = stringify(Here, this)]
  /\ UNCHANGED <<selectors, arrays, hist>>

\* cssSelectorBuilder.<kind>(value): new CSSSelector().<kind>(value)
FacadePart(kind, value) ==
  LET c == Construct(Here)
      r == callPart(c.st, c.this, kind, value) IN
  Commit(r, Accepted(Append(hist, <<>>), c.this, r,
                     [kind |-> kind, value |-> value]),
         [NoCall EXCEPT !.op = "part", !.facade = TRUE, !.this = c.this,
                        !.kind = kind, !.value = value])

\* cssSelectorBuilder.combine(selector1, combinator, selector2)
FacadeCombine(selector1, combinator, selector2) ==
  LET c == Construct(Here)
      r == combine(c.st, c.this, selector1, combinator, selector2) IN
  Commit(r, Accepted(Append(hist, <<>>), c.this, r,
                     [kind |-> "combine", value |-> combinator]),
         [NoCall EXCEPT !.op = "combine", !.facade = TRUE, !.this = c.this,
                        !.s1 = selector1, !.comb = combinator,
                        !.s2 = selector2])

\* cssSelectorBuilder.stringify(): new CSSSelector().stringify()
FacadeStringify ==
  LET c == Construct(Here) IN
  /\ selectors' = c.st.sel
  /\ arrays' = c.st.arr
  /\ hist' = Append(hist, <<>>)
  /\ last' = [NoCall EXCEPT !.op = "stringify", !.facade = TRUE,
                            !.this = c.this, !.ret = stringify(c.st, c.this)]

(***************************************************************************)
(* Rectangle(width, height): an object literal with the fields width and   *)
(* height and the method getArea, created inside the function, so that the *)
(* parameters width and height stay in the method's scope.                 *)
(***************************************************************************)
Dims == (-1..MaxDim) \cup {10, 20}

NoRectangle ==
  [made |-> FALSE, width |-> 0, height |-> 0,
   scope |-> [width |-> 0, height |-> 0]]

Rectangle(width, height) ==
  [made |-> TRUE, width |-> width, height |-> height,
   scope |-> [width |-> width, height |-> height]]

\* Mutant: the method reads the parameters in scope, not the fields.
getAreaOfParameters(this) == this.scope.width * this.scope.height

\* getArea() called on `this`
getArea(this) == this.width * this.height

NoRectCall == [op |-> "none", ret |-> 0]

\* const r = new Rectangle(width, height)
NewRectangle == \E width \in Dims, height \in Dims :
  /\ rect' = Rectangle(width, height)
  /\ rlast' = [NoRectCall EXCEPT !.op = "Rectangle"]
  /\ UNCHANGED <<builderVars, jsonVars>>

\* r.width = width
SetWidth == \E width \in Dims :
  /\ rect.made
  /\ rect' = [rect EXCEPT !.width = width]
  /\ rlast' = [NoRectCall EXCEPT !.op = "width="]
  /\ UNCHANGED <<builderVars, jsonVars>>

\* r.height = height
SetHeight == \E height \in Dims :
  /\ rect.made
  /\ rect' = [rect EXCEPT !.height = height]
  /\ rlast' = [NoRectCall EXCEPT !.op = "height="]
  /\ UNCHANGED <<builderVars, jsonVars>>

\* r.getArea()
GetArea ==
  /\ rect.made
  /\ rlast' = [NoRectCall EXCEPT !.op = "getArea", !.ret = getArea(rect)]
  /\ UNCHANGED rect
  /\ UNCHANGED <<builderVars, jsonVars>>

NextRect == NewRectangle \/ SetWidth \/ SetHeight \/ GetArea

(***************************************************************************)
(* getJSON and fromJSON.  A JavaScript value is a tagged record; an object *)
(* is a record in the heap `objects`: its prototype (0 is null) and its    *)
(* own properties in property order.  A property is a writable data        *)
(* property ("data"), a non-writable one ("readonly"), an accessor with a  *)
(* setter ("accessor") or one with a getter only ("getter").               *)
(***************************************************************************)
Number(n) == [t |-> "number", n |-> n, s |-> <<>>]
String(s) == [t |-> "string", n |-> 0, s |-> s]
Null == [t |-> "null", n |-> 0, s |-> <<>>]
True == [t |-> "boolean", n |-> 0, s |-> <<>>]
Undefined == [t |-> "undefined", n |-> 0, s |-> <<>>]
NaN == [t |-> "NaN", n |-> 0, s |-> <<>>]
Function == [t |-> "function", n |-> 0, s |-> <<>>]

radius == <<"r", "a", "d", "i", "u", "s">>
area == <<"a", "r", "e", "a">>
protoKey == <<"_", "_", "p", "r", "o", "t", "o", "_", "_">>

Keys == {radius, area, protoKey}
JsValues == {Number(10), String(<<"o", "k">>), Null, True, Undefined, NaN}

Property(key, kind, value) == [key |-> key, kind |-> kind, value |-> value]

\* Object.prototype: of its members only the __proto__ accessor can bear a
\* name in Keys.
ObjectPrototype ==
  [proto |-> 0, props |-> <<Property(protoKey, "accessor", Undefined)>>]

ObjectPrototypeRef == 1
GivenProtoRef == 2
GivenObjRef == 3

Digits == <<"0", "1", "2", "3", "4", "5", "6", "7", "8", "9">>

\* Number::toString of an integer
RECURSIVE numberToString(_)
numberToString(n) ==
  IF n < 0 THEN <<"-">> \o numberToString(-n)
  ELSE IF n < 10 THEN <<Digits[n + 1]>>
  ELSE numberToString(n \div 10) \o <<Digits[(n % 10) + 1]>>

quote(s) == <<"\"">> \o s \o <<"\"">>

\* SerializeJSONProperty of a primitive value; "" stands for undefined
serializeValue(value) ==
  CASE value.t = "number" -> numberToString(value.n)
    [] value.t = "string" -> quote(value.s)
    [] value.t = "null" -> <<"n", "u", "l", "l">>
    [] value.t = "boolean" -> <<"t", "r", "u", "e">>
    [] value.t = "NaN" -> <<"n", "u", "l", "l">>
    [] value.t \in {"undefined", "function"} -> <<>>

\* The members of SerializeJSONObject: own enumerable properties whose value
\* serializes, in property order
RECURSIVE serializeMembers(_)
serializeMembers(props) ==
  IF props = <<>> THEN <<>>
  ELSE LET head == props[1]
           text == serializeValue(head.value)
           rest == serializeMembers(Tail(props))
       IN IF text = <<>> THEN rest
          ELSE <<quote(head.key) \o <<":">> \o text>> \o rest

RECURSIVE join(_, _)
join(parts, sep) ==
  IF parts = <<>> THEN <<>>
  ELSE IF Len(parts) = 1 THEN parts[1]
  ELSE parts[1] \o sep \o join(Tail(parts), sep)

\* JSON.stringify(obj) of the object at reference obj
JSONstringify(heap, obj) ==
  <<"{">> \o join(serializeMembers(heap[obj].props), <<",">>) \o <<"}">>

getJSON(heap, obj) == JSONstringify(heap, obj)

\* First index at or after i where text holds one of the characters
RECURSIVE indexOf(_, _, _)
indexOf(text, chars, i) ==
  IF i > Len(text) THEN 0
  ELSE IF text[i] \in chars THEN i
  ELSE indexOf(text, chars, i + 1)

RECURSIVE parseDigits(_, _)
parseDigits(text, acc) ==
  IF text = <<>> THEN acc
  ELSE parseDigits(Tail(text),
         10 * acc + ((CHOOSE d \in 1..10 : Digits[d] = text[1]) - 1))

parseLiteral(text) ==
  IF text = <<"n", "u", "l", "l">> THEN Null
  ELSE IF text = <<"t", "r", "u", "e">> THEN True
  ELSE IF text[1] = "\"" THEN String(SubSeq(text, 2, Len(text) - 1))
  ELSE IF text[1] = "-" THEN Number(-parseDigits(Tail(text), 0))
  ELSE Number(parseDigits(text, 0))

\* The members of a JSON object text, from position i: the opening quote of
\* a key, or the closing brace
RECURSIVE parseMembers(_, _)
parseMembers(text, i) ==
  IF text[i] = "}" THEN <<>>
  ELSE LET q == indexOf(text, {"\""}, i + 1)
           key == SubSeq(text, i + 1, q - 1)
           from == q + 2
           to == IF text[from] = "\""
                   THEN indexOf(text, {"\""}, from + 1)
                   ELSE indexOf(text, {",", "}"}, from) - 1
           value == parseLiteral(SubSeq(text, from, to))
           next == IF text[to + 1] = "," THEN to + 2 ELSE to + 1
       IN <<Property(key, "data", value)>> \o parseMembers(text, next)

\* JSON.parse(json): the own properties of the parsed object
JSONparse(text) == parseMembers(text, 2)

\* Object.create(proto)
ObjectCreate(heap, proto) ==
  [ref |-> Len(heap) + 1,
   heap |-> Append(heap, [proto |-> proto, props |-> <<>>])]

hasOwn(heap, ref, key) ==
  \E i \in 1..Len(heap[ref].props) : heap[ref].props[i].key = key

ownProperty(heap, ref, key) ==
  heap[ref].props[CHOOSE i \in 1..Len(heap[ref].props) :
                    heap[ref].props[i].key = key]

\* The object on the prototype chain from ref that owns `key`; 0 if none
RECURSIVE holder(_, _, _)
holder(heap, ref, key) ==
  IF ref = 0 THEN 0
  ELSE IF hasOwn(heap, ref, key) THEN ref
  ELSE holder(heap, heap[ref].proto, key)

\* CreateDataProperty(receiver, key, value)
createDataProperty(heap, receiver, key, value) ==
  [heap EXCEPT ![receiver].props = Append(@, Property(key, "data", value))]

\* Call of a property's setter with this = receiver.  The only accessor with
\* a setter in the heap is __proto__ of Object.prototype, whose setter sets
\* the receiver's prototype when the value is null (or an object) and does
\* nothing for any other primitive value.
callSetter(heap, owner, receiver, key, value) ==
  IF owner = ObjectPrototypeRef /\ key = protoKey /\ value.t = "null"
    THEN [heap EXCEPT ![receiver].proto = 0]
    ELSE heap

\* receiver[key] = value in strict mode: OrdinarySet along the prototype
\* chain; ok is FALSE where the assignment throws a TypeError
Set(heap, receiver, key, value) ==
  LET owner == holder(heap, receiver, key) IN
  IF owner = 0 THEN
    [ok |-> TRUE, heap |-> createDataProperty(heap, receiver, key, value)]
  ELSE
    LET kind == ownProperty(heap, owner, key).kind IN
    CASE kind = "data" /\ owner = receiver ->
           [ok |-> TRUE,
            heap |-> [heap EXCEPT ![receiver].props =
                        [i \in DOMAIN @ |->
                           IF @[i].key = key
                             THEN Property(key, "data", value) ELSE @[i]]]]
      [] kind = "data" /\ owner # receiver ->
           [ok |-> TRUE, heap |-> createDataProperty(heap, receiver, key, value)]
      [] kind = "accessor" ->
           [ok |-> TRUE, heap |-> callSetter(heap, owner, receiver, key, value)]
      [] kind \in {"readonly", "getter"} -> [ok |-> FALSE, heap |-> heap]

\* Object.assign(target, source): Set of every own property of the source,
\* in order, until one throws
RECURSIVE ObjectAssign(_, _, _)
ObjectAssign(heap, target, props) ==
  IF props = <<>> THEN [threw |-> NoError, heap |-> heap, ref |-> target]
  ELSE LET r == Set(heap, target, props[1].key, props[1].value) IN
       IF ~r.ok THEN [threw |-> "TypeError", heap |-> r.heap, ref |-> 0]
       ELSE ObjectAssign(r.heap, target, Tail(props))

fromJSON(heap, proto, text) ==
  LET created == ObjectCreate(heap, proto) IN
  ObjectAssign(created.heap, created.ref, JSONparse(text))

NotMade == [done |-> FALSE, threw |-> NoError, ref |-> 0]

\* const json = getJSON(obj)
CallGetJSON ==
  /\ json = <<>>
  /\ json' = getJSON(objects, GivenObjRef)
  /\ UNCHANGED <<objects, protoArg, made, builderVars, rectVars>>

\* const r = fromJSON(proto, json)
CallFromJSON ==
  /\ json # <<>>
  /\ ~made.done
  /\ LET r == fromJSON(objects, protoArg, json) IN
       /\ objects' = r.heap
       /\ made' = [done |-> TRUE, threw |-> r.threw, ref |-> r.ref]
  /\ UNCHANGED <<protoArg, json, builderVars, rectVars>>

NextJSON == CallGetJSON \/ CallFromJSON

\* Sequences of at most MaxFields properties with distinct keys
FieldLists ==
  UNION {{f \in [1..n -> {Property(k, "data", v) : k \in Keys, v \in JsValues}] :
            \A i, j \in 1..n : i # j => f[i].key # f[j].key} : n \in 0..MaxFields}

\* Prototypes: no member named like a field, or the member `area` as a
\* method, as a non-writable property (a frozen prototype) or as a getter
\* without a setter
GivenProtos ==
  {[proto |-> base, props |-> members] :
     base \in {0, ObjectPrototypeRef},
     members \in {<<>>} \cup
       {<<Property(area, kind, IF kind = "getter" THEN Undefined ELSE Function)>> :
          kind \in {"data", "readonly", "getter"}}}

InitBuilders ==
  /\ selectors = <<>>
  /\ arrays = <<>>
  /\ hist = <<>>
  /\ last = NoCall
  /\ steps = 0

InitRect ==
  /\ rect = NoRectangle
  /\ rlast = NoRectCall

Init ==
  /\ InitBuilders
  /\ InitRect
  /\ objects = <<ObjectPrototype>>
  /\ protoArg = 0
  /\ json = <<>>
  /\ made = NotMade

\* An object obj with plain fields and a prototype proto (or null) are given
InitJSON ==
  /\ InitBuilders
  /\ InitRect
  /\ \E p \in GivenProtos, fields \in FieldLists :
       objects = <<ObjectPrototype, p,
                   [proto |-> ObjectPrototypeRef, props |-> fields]>>
  /\ protoArg \in {0, GivenProtoRef}
  /\ json = <<>>
  /\ made = NotMade

SpecJSON == InitJSON /\ [][NextJSON]_vars

SpecRect == Init /\ [][NextRect]_vars

CallPart == \E this \in Refs, kind \in Kinds, value \in Values :
  Part(this, kind, value)

CallCombine == \E this \in Refs, s1 \in Refs, c \in Combinators, s2 \in Refs :
  Combine(this, s1, c, s2)

CallStringify == \E this \in Refs : Stringify(this)

CallFacadePart == \E kind \in Kinds, value \in Values :
  Len(selectors) < MaxSelectors /\ FacadePart(kind, value)

CallFacadeCombine == \E s1 \in Refs, c \in Combinators, s2 \in Refs :
  Len(selectors) < MaxSelectors /\ FacadeCombine(s1, c, s2)

CallFacadeStringify == Len(selectors) < MaxSelectors /\ FacadeStringify

Tick == steps < MaxSteps /\ steps' = steps + 1 /\ UNCHANGED <<rectVars, jsonVars>>

Next ==
  \/ Tick /\ CallPart
  \/ Tick /\ CallCombine
  \/ Tick /\ CallStringify
  \/ Tick /\ CallFacadePart
  \/ Tick /\ CallFacadeCombine
  \/ Tick /\ CallFacadeStringify

Spec == Init /\ [][Next]_vars

(***************************************************************************)
(* One selector and a long chain on it: cssSelectorBuilder.<kind>(value)   *)
(* followed by part methods and stringify() on the returned object.        *)
(***************************************************************************)
ChainStart == \E kind \in Kinds, value \in Values :
  selectors = <<>> /\ FacadePart(kind, value) /\ UNCHANGED <<steps, rectVars, jsonVars>>

ChainPart == \E kind \in Kinds, value \in Values :
  /\ selectors # <<>>
  /\ Len(structureOf(Here, 1)) < MaxChain
  /\ Part(1, kind, value)
  /\ UNCHANGED <<steps, rectVars, jsonVars>>

ChainStringify == selectors # <<>> /\ Stringify(1) /\ UNCHANGED <<steps, rectVars, jsonVars>>

NextChain == ChainStart \/ ChainPart \/ ChainStringify

SpecChain == Init /\ [][NextChain]_vars

(***************************************************************************)
(* What the specification says, stated on its own terms.                   *)
(***************************************************************************)
KindOrder ==
  <<"element", "id", "class", "attr", "pseudoClass", "pseudoElement">>

\* Rank of a part kind: its place in element < id < ... < pseudoElement
RankOf(kind) == CHOOSE i \in 1..Len(KindOrder) : KindOrder[i] = kind

SingletonKinds == {"element", "id", "pseudoElement"}

\* The rendering of one part
Rendering(kind, value) ==
  CASE kind = "element" -> value
    [] kind = "id" -> <<"#">> \o value
    [] kind = "class" -> <<".">> \o value
    [] kind = "attr" -> <<"[">> \o value \o <<"]">>
    [] kind = "pseudoClass" -> <<":">> \o value
    [] kind = "pseudoElement" -> <<":", ":">> \o value

RECURSIVE ConcatRenderings(_)
ConcatRenderings(calls) ==
  IF calls = <<>> THEN <<>>
  ELSE ConcatRenderings(SubSeq(calls, 1, Len(calls) - 1))
         \o Rendering(calls[Len(calls)].kind, calls[Len(calls)].value)

PartsOnly(calls) == \A i \in 1..Len(calls) : calls[i].kind \in Kinds

\* Weakly increasing rank, each singleton kind at most once
ValidOrdering(calls) ==
  /\ \A i \in 1..(Len(calls) - 1) :
       RankOf(calls[i].kind) <= RankOf(calls[i + 1].kind)
  /\ \A i, j \in 1..Len(calls) :
       (i # j /\ calls[i].kind \in SingletonKinds) => calls[i].kind # calls[j].kind

NonDecreasing(kinds) ==
  \A i \in 1..(Len(kinds) - 1) : RankOf(kinds[i]) <= RankOf(kinds[i + 1])

LastCall == [kind |-> last.kind, value |-> last.value]

\* partSequence of the receiver before the call that `last'` describes
PartSequenceBefore ==
  IF last'.facade THEN <<>> ELSE structureOf(Here, last'.this)

\* text of the receiver before the call that `last'` describes
TextBefore == IF last'.facade THEN <<>> ELSE selectors[last'.this].css

\* C1: a chain of part calls on a fresh builder whose kinds are weakly
\* increasing in rank, with element, id and pseudoElement at most once,
\* never raises, and stringify() afterwards returns the concatenation of the
\* parts' renderings in call order.
C1_ValidChainRenders ==
  /\ (last.op = "part" /\ last.threw # NoError /\ PartsOnly(hist[last.this]))
       => ~ValidOrdering(Append(hist[last.this], LastCall))
  /\ (last.op = "stringify" /\ PartsOnly(hist[last.this])
        /\ ValidOrdering(hist[last.this]))
       => last.ret = ConcatRenderings(hist[last.this])

C1_Witness ==
  /\ last.op = "stringify"
  /\ Len(hist[last.this]) = 6
  /\ \A kind \in Kinds : \E i \in 1..6 : hist[last.this][i].kind = kind
  /\ last.ret = ConcatRenderings(hist[last.this])

\* C2: element, id or pseudoElement called when that kind is already in the
\* builder's partSequence raises the uniqueness error, also when the call
\* breaks the ordering rule too (element, id, element: uniqueness error).
C2_RepeatedSingletonRaisesUniqueness ==
  [][(/\ last'.op = "part"
      /\ ~last'.facade
      /\ last'.kind \in SingletonKinds
      /\ includes(structureOf(Here, last'.this), last'.kind))
       => last'.threw = msgUniqs]_vars

C2_Witness ==
  /\ last.op = "part"
  /\ last.kind = "element"
  /\ last.threw = msgUniqs
  /\ structureOf(Here, last.this) = <<"element", "id">>

\* C3: an append that is not a repeated singleton kind raises the order
\* error exactly when partSequence is non-empty and the new kind's rank is
\* strictly below the rank of the kind appended last; otherwise it is
\* accepted.  class(div).class(main).stringify() is '.div.main'.
C3_OrderErrorIffLowerRank ==
  [][/\ (/\ last'.op = "part"
         /\ ~(/\ last'.kind \in SingletonKinds
              /\ includes(PartSequenceBefore, last'.kind)))
          => LET before == PartSequenceBefore
                 lower == /\ Len(before) > 0
                          /\ RankOf(last'.kind) < RankOf(before[Len(before)])
             IN /\ lower => last'.threw = msgOrder
                /\ ~lower => /\ last'.threw = NoError
                             /\ structureOf(Store(selectors', arrays'), last'.this)
                                  = Append(before, last'.kind)
     /\ (/\ last'.op = "stringify"
         /\ hist'[last'.this] = <<[kind |-> "class", value |-> div],
                                  [kind |-> "class", value |-> main]>>)
          => last'.ret = <<".", "d", "i", "v", ".", "m", "a", "i", "n">>]_vars

C3_Witness ==
  /\ last.op = "part"
  /\ last.kind = "element"
  /\ last.threw = msgOrder
  /\ structureOf(Here, last.this) = <<"id">>

\* C4: combine(left, combinator, right) appends to the receiver's text
\* stringify(left), a space, the combinator, a space, stringify(right); a
\* combinator that is one space gives three spaces; operands may be results
\* of combine; combine(element(div), '+', id(main)) on a fresh builder
\* stringifies to 'div + #main'.
C4_CombineAppends ==
  [][last'.op = "combine" =>
       LET left == selectors[last'.s1].css
           right == selectors[last'.s2].css
           after == selectors'[last'.this].css
       IN /\ last'.threw = NoError
          /\ after = TextBefore \o left \o <<" ">> \o last'.comb \o <<" ">> \o right
          /\ last'.comb = <<" ">>
               => after = TextBefore \o left \o <<" ", " ", " ">> \o right
          /\ (/\ last'.facade
              /\ last'.comb = <<"+">>
              /\ hist[last'.s1] = <<[kind |-> "element", value |-> div]>>
              /\ hist[last'.s2] = <<[kind |-> "id", value |-> main]>>)
               => after = <<"d", "i", "v", " ", "+", " ", "#", "m", "a", "i", "n">>
    ]_vars

C4_Witness ==
  /\ last.op = "combine"
  /\ last.comb = <<" ">>
  /\ \E i \in 1..Len(hist[last.s1]) : hist[last.s1][i].kind = "combine"
  /\ last.s1 # last.this
  /\ selectors[last.s2].css # <<>>

\* C5: stringify() returns the builder's current text, changes neither text
\* nor partSequence, and returns the same value when repeated with nothing
\* in between.
C5_StringifyPureRead ==
  [][(last'.op = "stringify" /\ ~last'.facade) =>
       /\ last'.ret = selectors[last'.this].css
       /\ selectors' = selectors
       /\ arrays' = arrays
       /\ (last.op = "stringify" /\ last.this = last'.this)
            => last'.ret = last.ret]_vars

C5_Witness ==
  /\ last.op = "stringify"
  /\ Len(hist[last.this]) >= 2
  /\ last.ret # <<>>
  /\ last.ret = selectors[last.this].css

\* C6: a facade call kind(value) never raises, whatever facade calls came
\* before, and returns a builder whose text is the rendering of that part
\* and whose partSequence is <<kind>>; the facade's stringify() returns ''.
C6_FacadeStartsFresh ==
  /\ (last.facade /\ last.op = "part")
       => /\ last.threw = NoError
          /\ selectors[last.this].css = Rendering(last.kind, last.value)
          /\ structureOf(Here, last.this) = <<last.kind>>
  /\ (last.facade /\ last.op = "stringify") => last.ret = <<>>

C6_Witness ==
  /\ last.facade
  /\ last.op = "part"
  /\ last.kind = "element"
  /\ last.this = 3
  /\ \A b \in Refs : includes(structureOf(Here, b), "element")

\* The outcome of a sequence of part calls made on a builder that is alone
RECURSIVE Alone(_)
Alone(calls) ==
  IF calls = <<>> THEN Returned(Construct(Store(<<>>, <<>>)).st)
  ELSE LET before == Alone(SubSeq(calls, 1, Len(calls) - 1))
           call == calls[Len(calls)]
       IN IF before.threw # NoError THEN before
          ELSE callPart(before.st, 1, call.kind, call.value)

\* C7: builders from distinct facade calls are independent: the text, the
\* partSequence and the outcome of every part or stringify call on a builder
\* are those of the same calls made on a builder that is alone.
C7_BuildersIndependent ==
  /\ \A b \in Refs :
       PartsOnly(hist[b]) =>
         LET alone == Alone(hist[b]) IN
         /\ alone.threw = NoError
         /\ selectors[b].css = alone.st.sel[1].css
         /\ structureOf(Here, b) = structureOf(alone.st, 1)
  /\ (last.op = "part" /\ PartsOnly(hist[last.this]))
       => last.threw =
            Alone(IF last.threw = NoError THEN hist[last.this]
                  ELSE Append(hist[last.this], LastCall)).threw
  /\ (last.op = "stringify" /\ PartsOnly(hist[last.this]))
       => last.ret = Alone(hist[last.this]).st.sel[1].css

C7_Witness ==
  /\ Len(selectors) >= 2
  /\ last.op = "part"
  /\ ~last.facade
  /\ last.this = 1
  /\ last.threw = NoError
  /\ includes(structureOf(Here, 1), "element")
  /\ includes(structureOf(Here, 2), "element")

\* C10: in every reachable state, also after calls that raised, every
\* builder's partSequence is non-decreasing in rank.
C10_PartSequenceNonDecreasing ==
  \A b \in Refs : NonDecreasing(structureOf(Here, b))

C10_Witness ==
  /\ last.op = "part"
  /\ last.threw = msgOrder
  /\ Len(structureOf(Here, last.this)) >= 1
  /\ \E i \in 1..Len(hist[last.this]) : hist[last.this][i].kind = "combine"

\* C8: getArea() returns the product of the object's width and height
\* fields as they are when it is called, whatever was assigned to them
\* since creation; Rectangle(10, 20).getArea() is 200.
C8_AreaOfCurrentFields ==
  /\ rlast.op = "getArea" => rlast.ret = rect.width * rect.height
  /\ (rlast.op = "getArea" /\ rect = Rectangle(10, 20)) => rlast.ret = 200

C8_Witness ==
  /\ rlast.op = "getArea"
  /\ rect.scope = [width |-> 10, height |-> 20]
  /\ rect.width = 2
  /\ rect.height = -1
  /\ rlast.ret = -2

\* Fields whose values JSON represents: finite numbers, strings, booleans, null
PlainFields(props) ==
  \A i \in 1..Len(props) :
    props[i].value.t \in {"number", "string", "boolean", "null"}

FieldSet(props) == {props[i] : i \in 1..Len(props)}

\* C9: for every plain-field object obj and every prototype proto,
\* fromJSON(proto, getJSON(obj)) is a new object whose own fields are exactly
\* obj's own fields with equal values and whose prototype link leads to
\* proto; a field named like a member of proto becomes an own field that
\* shadows it; proto is left unchanged.
C9_RoundTrip ==
  [][(made'.done /\ ~made.done /\ PlainFields(objects[GivenObjRef].props)) =>
       /\ made'.threw = NoError
       /\ made'.ref \notin 1..Len(objects)
       /\ FieldSet(objects'[made'.ref].props)
            = FieldSet(objects[GivenObjRef].props)
       /\ objects'[made'.ref].proto = protoArg
       /\ \A i \in 1..Len(objects[GivenObjRef].props) :
            holder(objects, protoArg, objects[GivenObjRef].props[i].key) # 0
              => hasOwn(objects', made'.ref, objects[GivenObjRef].props[i].key)
       /\ \A r \in 1..Len(objects) : objects'[r] = objects[r]]_vars

\* Every field of obj has a name under which the chain of proto holds
\* nothing or a writable data property
Assignable(props) ==
  \A i \in 1..Len(props) :
    LET owner == holder(objects, protoArg, props[i].key) IN
    owner # 0 => ownProperty(objects, owner, props[i].key).kind = "data"

\* The round trip of C9 where every field is assignable on a new object
\* that inherits from proto
RoundTripWhereAssignable ==
  [][(/\ made'.done
      /\ ~made.done
      /\ PlainFields(objects[GivenObjRef].props)
      /\ Assignable(objects[GivenObjRef].props)) =>
       /\ made'.threw = NoError
       /\ made'.ref \notin 1..Len(objects)
       /\ FieldSet(objects'[made'.ref].props)
            = FieldSet(objects[GivenObjRef].props)
       /\ objects'[made'.ref].proto = protoArg
       /\ \A r \in 1..Len(objects) : objects'[r] = objects[r]]_vars

RoundTripReached ==
  /\ made.done
  /\ made.threw = NoError
  /\ protoArg = GivenProtoRef
  /\ hasOwn(objects, GivenProtoRef, area)
  /\ hasOwn(objects, made.ref, area)
  /\ Len(objects[made.ref].props) = 2

Occurrences(seq, x) == Cardinality({i \in 1..Len(seq) : seq[i] = x})

\* C11: in every reachable state, also after calls that raised, each of
\* element, id and pseudoElement occurs at most once in a builder's
\* partSequence.
C11_SingletonsAtMostOnce ==
  \A b \in Refs : \A kind \in SingletonKinds :
    Occurrences(structureOf(Here, b), kind) <= 1

C11_Witness ==
  /\ last.op = "part"
  /\ last.kind = "element"
  /\ last.threw = msgUniqs
  /\ Occurrences(structureOf(Here, last.this), "element") = 1
  /\ \E i \in 1..Len(hist[last.this]) : hist[last.this][i].kind = "combine"

IsPrefix(p, t) == Len(p) <= Len(t) /\ SubSeq(t, 1, Len(p)) = p

\* C12: text is append-only: for every operation, accepted or raising, each
\* builder's text before it is a prefix of that builder's text after it.
C12_TextAppendOnly ==
  [][\A b \in Refs : IsPrefix(selectors[b].css, selectors'[b].css)]_vars

C12_Witness ==
  /\ last.op = "part"
  /\ ~last.facade
  /\ last.threw = NoError
  /\ Len(hist[last.this]) = 3
  /\ hist[last.this][2].kind = "combine"
  /\ IsPrefix(Rendering(hist[last.this][1].kind, hist[last.this][1].value),
              selectors[last.this].css)

\* The part calls among the calls a builder accepted
PartsOf(calls) == SelectSeq(calls, LAMBDA call : call.kind \in Kinds)

KindsOf(calls) == [i \in 1..Len(calls) |-> calls[i].kind]

\* The calls the receiver of the call that `last'` describes accepted before it
HistBefore == IF last'.facade THEN <<>> ELSE hist[last'.this]

\* C13: combine never raises and leaves every partSequence unchanged, so a
\* later part append is accepted or rejected as it would be had combine not
\* been called: after combine on a fresh builder any part is accepted, and
\* after id then combine, element still raises the order error.
C13_CombineOrthogonalToRank ==
  [][/\ last'.op = "combine" =>
          /\ last'.threw = NoError
          /\ \A b \in Refs :
               structureOf(Store(selectors', arrays'), b) = structureOf(Here, b)
          /\ last'.facade =>
               structureOf(Store(selectors', arrays'), last'.this) = <<>>
     /\ last'.op = "part" =>
          /\ last'.threw =
               Alone(Append(PartsOf(HistBefore),
                            [kind |-> last'.kind, value |-> last'.value])).threw
          /\ PartsOf(HistBefore) = <<>> => last'.threw = NoError
          /\ (KindsOf(HistBefore) = <<"id", "combine">> /\ last'.kind = "element")
               => last'.threw = msgOrder]_vars

C13_Witness ==
  /\ last.op = "part"
  /\ last.kind = "element"
  /\ last.threw = msgOrder
  /\ KindsOf(hist[last.this]) = <<"id", "combine">>

\* C14: a part append that raises leaves the builder's text and
\* partSequence as they were, and every other builder too, so that
\* stringify() and every later call behave as if it had not been made.
C14_RejectedAppendChangesNothing ==
  [][(last'.op = "part" /\ last'.threw # NoError /\ ~last'.facade) =>
       /\ selectors' = selectors
       /\ arrays' = arrays
       /\ hist' = hist]_vars

C14_Witness ==
  /\ last.op = "part"
  /\ last.threw = msgOrder
  /\ Len(hist[last.this]) = 2
  /\ KindsOf(hist[last.this]) = structureOf(Here, last.this)
  /\ selectors[last.this].css = ConcatRenderings(hist[last.this])

HasPseudoElement(st, b) == includes(structureOf(st, b), "pseudoElement")

\* C15: once pseudoElement has been accepted on a builder it stays in the
\* partSequence, and every later part call on that builder raises: the
\* uniqueness error for pseudoElement and for an element or id already
\* present, the order error otherwise; combine and stringify still succeed.
C15_NothingAfterPseudoElement ==
  [][/\ \A b \in Refs :
          HasPseudoElement(Here, b)
            => HasPseudoElement(Store(selectors', arrays'), b)
     /\ (~last'.facade /\ last'.op # "none"
           /\ HasPseudoElement(Here, last'.this)) =>
          LET before == structureOf(Here, last'.this) IN
          /\ last'.op = "part" =>
               /\ last'.threw =
                    IF last'.kind \in SingletonKinds /\ includes(before, last'.kind)
                      THEN msgUniqs ELSE msgOrder
               /\ last'.kind = "pseudoElement" => last'.threw = msgUniqs
               /\ last'.kind \in {"class", "attr", "pseudoClass"}
                    => last'.threw = msgOrder
          /\ last'.op = "combine" => last'.threw = NoError
          /\ last'.op = "stringify" =>
               /\ last'.threw = NoError
               /\ last'.ret = selectors[last'.this].css]_vars

C15_Witness ==
  /\ last.op = "part"
  /\ last.kind = "id"
  /\ last.threw = msgOrder
  /\ KindsOf(hist[last.this]) = <<"pseudoElement", "combine">>

\* C16: combine called on a builder that is neither operand leaves the text
\* and partSequence of both operands unchanged, and no call on one builder
\* changes the text of another, so the receiver's text stays as it is when
\* an operand is modified afterwards.
C16_CombineLeavesOperandsAlone ==
  [][/\ (last'.op = "combine" /\ last'.this \notin {last'.s1, last'.s2}) =>
          \A operand \in {last'.s1, last'.s2} :
            /\ selectors'[operand].css = selectors[operand].css
            /\ structureOf(Store(selectors', arrays'), operand)
                 = structureOf(Here, operand)
            /\ hist'[operand] = hist[operand]
     /\ last'.op \in {"part", "combine", "stringify"} =>
          \A b \in Refs \ {last'.this} :
            selectors'[b].css = selectors[b].css]_vars

C16_Witness ==
  /\ last.op = "combine"
  /\ last.this \notin {last.s1, last.s2}
  /\ last.s1 # last.s2
  /\ structureOf(Here, last.s1) # <<>>
  /\ structureOf(Here, last.s2) # <<>>
  /\ selectors[last.this].css =
       selectors[last.s1].css \o <<" ">> \o last.comb \o <<" ">>
         \o selectors[last.s2].css

====
